---------------------------- MODULE Spec2Model ----------------------------
(***************************************************************************)
(* ThemeRouter (src/lib/html/router.ts): page layout, document names,      *)
(* per-page anchor slugs and relative links over a tree of reflections.    *)
(*                                                                         *)
(* Strings are TLA+ strings; Len, \o and SubSeq act on them character by   *)
(* character, so sanitising, slugging and path arithmetic are computed,    *)
(* not assumed.                                                            *)
(***************************************************************************)
EXTENDS Integers, Sequences, FiniteSets, TLC

(***************************************************************************)
(* Bounds of the model.                                                    *)
(***************************************************************************)
MaxNodes == 4      \* reflections in the tree, the root included
MaxSlugs == 2      \* slugs one router is asked for (repeated questions are free)

(***************************************************************************)
(* Characters.                                                             *)
(***************************************************************************)
Uppers == "ABCDEFGHIJKLMNOPQRSTUVWXYZ"
Lowers == "abcdefghijklmnopqrstuvwxyz"
Digits == "0123456789"

Char(s, i) == SubSeq(s, i, i)
CharsOf(s) == { Char(s, i) : i \in 1..Len(s) }

\* String.prototype.toLowerCase on one ASCII character
LowerOf == [c \in CharsOf(Uppers) |->
               Char(Lowers, CHOOSE i \in 1..Len(Uppers) : Char(Uppers, i) = c)]

ToLowerChar(c) == IF c \in DOMAIN LowerOf THEN LowerOf[c] ELSE c

RECURSIVE toLowerCase(_)
toLowerCase(s) ==
    IF s = "" THEN ""
    ELSE ToLowerChar(Char(s, 1)) \o toLowerCase(SubSeq(s, 2, Len(s)))

\* \s of the regular expressions, on the characters the model uses
IsSpace(c) == c = " "

RECURSIVE trimStart(_)
trimStart(s) ==
    IF s # "" /\ IsSpace(Char(s, 1)) THEN trimStart(SubSeq(s, 2, Len(s))) ELSE s

RECURSIVE trimEnd(_)
trimEnd(s) ==
    IF s # "" /\ IsSpace(Char(s, Len(s))) THEN trimEnd(SubSeq(s, 1, Len(s) - 1)) ELSE s

trim(s) == trimEnd(trimStart(s))

RECURSIVE JoinWith(_, _)
JoinWith(parts, sep) ==
    IF Len(parts) = 0 THEN ""
    ELSE IF Len(parts) = 1 THEN parts[1]
    ELSE parts[1] \o sep \o JoinWith(Tail(parts), sep)

\* String.prototype.split("/"): the pieces between the slashes from `start` on
RECURSIVE SplitFrom(_, _, _)
SplitFrom(s, start, i) ==
    IF i > Len(s) THEN <<SubSeq(s, start, Len(s))>>
    ELSE IF Char(s, i) = "/" THEN <<SubSeq(s, start, i - 1)>> \o SplitFrom(s, i + 1, i + 1)
    ELSE SplitFrom(s, start, i + 1)

Split(s) == SplitFrom(s, 1, 1)

(***************************************************************************)
(* marked's Slugger: the per-page label uniquifier.                        *)
(***************************************************************************)
\* the punctuation Slugger.serialize deletes (ASCII part of its class)
SluggerRemoved ==
    { "!", "#", "$", "%", "&", "+", ",", ".", "/", ":", ";", "=", "?", "@", "~" }

RECURSIVE RemoveAndDash(_)
RemoveAndDash(s) ==
    IF s = "" THEN ""
    ELSE LET c == Char(s, 1)
             rest == RemoveAndDash(SubSeq(s, 2, Len(s)))
         IN  IF c \in SluggerRemoved THEN rest
             ELSE IF IsSpace(c) THEN "-" \o rest
             ELSE c \o rest

\* value.toLowerCase().trim(), delete punctuation, whitespace -> "-"
serialize(value) == RemoveAndDash(trim(toLowerCase(value)))

\* first originalSlug-k, k > occ, that has not been issued
RECURSIVE NextFree(_, _, _)
NextFree(seen, originalSlug, occ) ==
    LET cand == originalSlug \o "-" \o ToString(occ + 1)
    IN  IF cand \in DOMAIN seen THEN NextFree(seen, originalSlug, occ + 1)
        ELSE [slug |-> cand, occ |-> occ + 1]

\* this.seen[originalSlug] = occurenceAccumulator; this.seen[slug] = 0
Registered(seen, originalSlug, r) ==
    LET withOriginal == [k \in DOMAIN seen \cup {originalSlug} |->
                            IF k = originalSlug THEN r.occ ELSE seen[k]]
    IN  [slug |-> r.slug,
         seen |-> [k \in DOMAIN withOriginal \cup {r.slug} |->
                      IF k = r.slug THEN 0 ELSE withOriginal[k]]]

\* Slugger.getNextSafeSlug(originalSlug)
getNextSafeSlug(seen, originalSlug) ==
    Registered(seen, originalSlug,
               IF originalSlug \in DOMAIN seen
               THEN NextFree(seen, originalSlug, seen[originalSlug])
               ELSE [slug |-> originalSlug, occ |-> 0])

\* Slugger.slug(value): the identifier handed out and the slugger afterwards
SluggerSlug(seen, value) == getNextSafeSlug(seen, serialize(value))

EmptySlugger == [k \in {} |-> 0]

(***************************************************************************)
(* node's posix path functions, on relative paths.                         *)
(***************************************************************************)
\* path segments with "" and "." dropped and ".." resolved
RECURSIVE Normalize(_, _)
Normalize(segs, acc) ==
    IF Len(segs) = 0 THEN acc
    ELSE LET h == Head(segs)
         IN  IF h = "" \/ h = "." THEN Normalize(Tail(segs), acc)
             ELSE IF h = ".." /\ Len(acc) > 0 /\ acc[Len(acc)] # ".."
                  THEN Normalize(Tail(segs), SubSeq(acc, 1, Len(acc) - 1))
             ELSE Normalize(Tail(segs), Append(acc, h))

\* posix.dirname
dirname(path) ==
    LET segs == Split(path)
    IN  IF Len(segs) = 1 THEN "."
        ELSE LET d == JoinWith(SubSeq(segs, 1, Len(segs) - 1), "/")
             IN  IF d = "" THEN "/" ELSE d

\* posix.join
join(a, b) == JoinWith(Normalize(Split(a \o "/" \o b), <<>>), "/")

RECURSIVE CommonLen(_, _)
CommonLen(a, b) ==
    IF Len(a) = 0 \/ Len(b) = 0 \/ Head(a) # Head(b) THEN 0
    ELSE 1 + CommonLen(Tail(a), Tail(b))

\* posix.relative
relative(from, to) ==
    LET f == Normalize(Split(from), <<>>)
        t == Normalize(Split(to), <<>>)
        c == CommonLen(f, t)
    IN  JoinWith([i \in 1..(Len(f) - c) |-> ".."] \o SubSeq(t, c + 1, Len(t)), "/")

(***************************************************************************)
(* The reflection tree (read-only while routing) and the router's state.   *)
(***************************************************************************)
VARIABLES
    kind,        \* Reflection.kind, by the name of the ReflectionKind member
    name,        \* Reflection.name
    parent,      \* Reflection.parent, NoNode when absent
    router,      \* the router class constructed
    _sluggers,   \* ThemeRouter._sluggers: page reflection -> Slugger (its `seen`)
    _slugs,      \* ThemeRouter._slugs: (the page's) Slugger -> reflection -> slug
    last,        \* the call in progress and what it returned or threw
    issued,      \* history: first-time createSlug questions answered so far
    slugsReturned, \* history: reflection -> what header-less createSlug calls, by a
                 \* caller or by createLink (read off the link), returned
    handed,      \* history: page -> what createSlug got from the page's slugger
    pageLog      \* history: page -> the labels given to the page's slugger, in order

tree == <<kind, name, parent, router>>
history == <<issued, slugsReturned, handed, pageLog>>
vars == <<kind, name, parent, router, _sluggers, _slugs, last,
          issued, slugsReturned, handed, pageLog>>

Nodes == 1..MaxNodes
NoNode == 0

Routers == { "ThemeRouter", "MinimalThemeRouter" }

\* the two assertions of the router
BrokenAncestry == "Rendered reflection has no parent with document."
NonProjectRoot == "Cannot generate docs for a reflection not in a project."

Ok(v) == [err |-> "", val |-> v]
Throw(e) == [err |-> e, val |-> ""]

\* Reflection.isProject()
isProject(n) == kind[n] = "Project"

\* Reflection.kindOf(ReflectionKind.Signature)
isSignature(n) == kind[n] = "CallSignature"

\* Reflection.isContainer(): project and declaration reflections
isContainer(n) == ~isSignature(n)

\* ContainerReflection.children
children(n) == { c \in Nodes : parent[c] = n }

\* ReflectionKind.toKindString
toKindString(k) == IF k = "CallSignature" THEN "Call signature" ELSE k

ThemeRouter_hasOwnDocument(n) ==
    kind[n] \in { "Project", "Module", "Namespace", "Class", "Interface" }

MinimalThemeRouter_hasOwnDocument(n) == isProject(n)

hasOwnDocument(n) ==
    IF router = "MinimalThemeRouter" THEN MinimalThemeRouter_hasOwnDocument(n)
    ELSE ThemeRouter_hasOwnDocument(n)

getChildrenInPage(n) ==
    IF isContainer(n) THEN { c \in children(n) : ~hasOwnDocument(c) } ELSE {}

getChildrenNotInPage(n) ==
    IF isContainer(n) THEN { c \in children(n) : hasOwnDocument(c) } ELSE {}

\* the walk without its assertion: it stops at the reflection without a parent
RECURSIVE _getReflectionWithDocument_NoAssert(_)
_getReflectionWithDocument_NoAssert(n) ==
    IF hasOwnDocument(n) \/ parent[n] = NoNode THEN n
    ELSE _getReflectionWithDocument_NoAssert(parent[n])

\* NoNode stands for the failed assertion "has no parent with document"
RECURSIVE _getReflectionWithDocument(_)
_getReflectionWithDocument(n) ==
    IF hasOwnDocument(n) THEN n
    ELSE IF parent[n] = NoNode THEN NoNode
    ELSE _getReflectionWithDocument(parent[n])

SafeChars == CharsOf(Uppers) \cup CharsOf(Lowers) \cup CharsOf(Digits) \cup { ".", "_", "-" }

RECURSIVE SafeFrom(_, _)
SafeFrom(s, i) ==
    IF i > Len(s) THEN ""
    ELSE (IF Char(s, i) \notin SafeChars \/ (i = 1 /\ Char(s, i) = "-")
          THEN "_" ELSE Char(s, i)) \o SafeFrom(s, i + 1)

\* the replacement without its ^- alternative
RECURSIVE SafeFrom_NoDashRule(_, _)
SafeFrom_NoDashRule(s, i) ==
    IF i > Len(s) THEN ""
    ELSE (IF Char(s, i) \notin SafeChars THEN "_" ELSE Char(s, i))
            \o SafeFrom_NoDashRule(s, i + 1)

_getSafeFilename_NoDashRule(s) == SafeFrom_NoDashRule(s, 1)

\* name.replace(/[^A-Za-z0-9._-]|^-/g, "_")
_getSafeFilename(s) == SafeFrom(s, 1)

\* any children at all, with or without documents of their own
_anyChildren(n) == isContainer(n) /\ children(n) # {}

_anyChildrenHaveOwnDocument(n) ==
    IF isContainer(n) THEN \E c \in children(n) : hasOwnDocument(c) ELSE FALSE

\* the while loop of getDocumentName: safe names from below the top down to n
RECURSIVE DocParts(_)
DocParts(n) ==
    IF parent[n] = NoNode THEN <<>>
    ELSE Append(DocParts(parent[n]), _getSafeFilename(name[n]))

RECURSIVE Top(_)
Top(n) == IF parent[n] = NoNode THEN n ELSE Top(parent[n])

getDocumentName(reflection) ==
    LET pageReflection == _getReflectionWithDocument(reflection)
    IN  IF pageReflection = NoNode THEN Throw(BrokenAncestry)
        ELSE IF ~isProject(Top(pageReflection)) THEN Throw(NonProjectRoot)
        ELSE LET parts == DocParts(pageReflection)
             IN  IF _anyChildrenHaveOwnDocument(pageReflection) \/ isProject(pageReflection)
                 THEN Ok(JoinWith(Append(parts, "index.html"), "/"))
                 ELSE LET fileName == toKindString(kind[pageReflection]) \o "."
                                        \o _getSafeFilename(name[pageReflection]) \o ".html"
                      IN  Ok(JoinWith(Append(SubSeq(parts, 1, Len(parts) - 1), fileName), "/"))

getAssetDirectory == "assets"
getMediaDirectory == "media"

\* posix.relative(posix.dirname(doc), posix.join(directory, file))
RelativeTo(doc, directory, file) ==
    IF doc.err # "" THEN doc
    ELSE Ok(relative(dirname(doc.val), join(directory, file)))

\* getDocumentName(docReflection), when there is a docReflection
DocumentOf(docReflection) ==
    IF docReflection = NoNode THEN Throw(BrokenAncestry)
    ELSE getDocumentName(docReflection)

createAssetLink(from, asset) ==
    RelativeTo(DocumentOf(_getReflectionWithDocument(from)), getAssetDirectory, asset)

createMediaLink(from, media) ==
    RelativeTo(DocumentOf(_getReflectionWithDocument(from)), getAssetDirectory, media)

(***************************************************************************)
(* createSlug and createLink: the calls that read and write router state.  *)
(***************************************************************************)
\* new Slugger() with nothing registered
NewSlugger_Unseeded == EmptySlugger

\* new Slugger() with the ids of the default page registered
NewSlugger ==
    SluggerSlug(SluggerSlug(SluggerSlug(EmptySlugger, "main").seen, "search").seen, "theme").seen

\* the loop building the hierarchy: names from below docReflection down to n
RECURSIVE SlugParts(_, _)
SlugParts(n, docReflection) ==
    IF n = docReflection THEN <<>>
    ELSE SlugParts(parent[n], docReflection)
            \o (IF isSignature(n) THEN <<>> ELSE <<name[n]>>)

\* one slugger for the whole router, kept under the project
SluggerKey_Shared(docReflection) == 1

\* the key under which createSlug looks the page's slugger up
SluggerKey(docReflection) == docReflection

\* a header slug that is computed and not registered
HeaderSlug_NotRegistered(slugger, header) ==
    [slug |-> SluggerSlug(slugger, header).slug, seen |-> slugger]

\* if (header) return slugger.slug(header)
HeaderSlug(slugger, header) == SluggerSlug(slugger, header)

\* slugs.set(targetReflection, slug), slug being the one the slugger handed out as r
Memorize(memo, targetReflection, r) ==
    [slug |-> r.slug, seen |-> r.seen,
     memo |-> [n \in DOMAIN memo \cup {targetReflection} |->
                  IF n = targetReflection THEN r.slug ELSE memo[n]]]

\* a memo that is written and never read
MemoOrSlug_NoLookup(slugger, memo, targetReflection, label) ==
    Memorize(memo, targetReflection, SluggerSlug(slugger, label))

\* slugs.get(targetReflection) ?? slugger.slug(name); slugs.set(targetReflection, slug)
MemoOrSlug(slugger, memo, targetReflection, label) ==
    IF targetReflection \in DOMAIN memo
    THEN [slug |-> memo[targetReflection], seen |-> slugger, memo |-> memo]
    ELSE Memorize(memo, targetReflection, SluggerSlug(slugger, label))

\* a call that leaves the router as it is
Unchanged(r) == r @@ [sluggers |-> _sluggers, slugs |-> _slugs]

\* return slugger.slug(header): the page's slugger moves on, the memo stays
HeaderReturn(key, r) ==
    Ok(r.slug) @@ [sluggers |-> (key :> r.seen) @@ _sluggers, slugs |-> _slugs]

\* return slug, after slugs.set: the page's slugger and memo as r leaves them
SlugReturn(key, r) ==
    Ok(r.slug) @@ [sluggers |-> (key :> r.seen) @@ _sluggers,
                   slugs |-> (key :> r.memo) @@ _slugs]

\* this._sluggers.get(docReflection), created and seeded when absent
SluggerOf(key) == IF key \in DOMAIN _sluggers THEN _sluggers[key] ELSE NewSlugger

\* this._slugs.get(slugger): the memo kept with the page's slugger
MemoOf(key) == IF key \in DOMAIN _slugs THEN _slugs[key] ELSE [n \in {} |-> ""]

\* createSlug once the page of the reflection is known
createSlugOn(reflection, header, docReflection) ==
    IF docReflection = NoNode THEN Unchanged(Throw(BrokenAncestry))
    ELSE IF docReflection = reflection /\ header = "" THEN Unchanged(Ok(""))
    ELSE IF header # ""
    THEN HeaderReturn(SluggerKey(docReflection),
                      HeaderSlug(SluggerOf(SluggerKey(docReflection)), header))
    ELSE SlugReturn(SluggerKey(docReflection),
                    MemoOrSlug(SluggerOf(SluggerKey(docReflection)),
                               MemoOf(SluggerKey(docReflection)), reflection,
                               JoinWith(SlugParts(reflection, docReflection), "-")))

\* header = "" stands for "no header": both are falsy
createSlug(reflection, header) ==
    createSlugOn(reflection, header, _getReflectionWithDocument(reflection))

\* the anchor appended whether or not there is a slug
LinkAnchor_Always(slug) == "#" \o slug

\* slug ? `#${slug}` : ""
LinkAnchor(slug) == IF slug # "" THEN "#" \o slug ELSE ""

\* the link from its three parts; the first of them that failed fails the call
LinkOf(fromPage, toPage, slug) ==
    IF fromPage.err # "" THEN Unchanged(fromPage)
    ELSE IF toPage.err # "" THEN Unchanged(toPage)
    ELSE IF slug.err # "" THEN slug
    ELSE [slug EXCEPT !.val = relative(dirname(fromPage.val), toPage.val)
                                \o LinkAnchor(slug.val)]

\* getDocumentName(from), getDocumentName(to), createSlug(to), in that order
createLink(from, to) ==
    LinkOf(getDocumentName(from), getDocumentName(to), createSlug(to, ""))

(***************************************************************************)
(* Inputs.                                                                 *)
(***************************************************************************)
LinkSources == { 1, MaxNodes }  \* where links start: the project, the last reflection
Headers == { "Main", "!" }      \* header texts; "!" serializes to ""
Assets == { "style.css" }
Medias == { "logo.png" }

NoCall == [op |-> "none", from |-> NoNode, to |-> NoNode, arg |-> "",
           err |-> "", val |-> "", again |-> FALSE]

\* the parent chain of n ends before a reflection with a document
Broken(n) == _getReflectionWithDocument(n) = NoNode

\* whether the page of n already handed n a header-less slug
Memoized(n) ==
    LET d == _getReflectionWithDocument(n)
    IN  d # NoNode /\ d \in DOMAIN _slugs /\ n \in DOMAIN _slugs[d]

\* whether the call makes the page's slugger hand out an identifier
Issues(n, header) ==
    LET d == _getReflectionWithDocument(n)
    IN  d # NoNode /\ (IF header # "" THEN TRUE ELSE d # n /\ ~Memoized(n))

\* the label such a call gives the slugger
LabelOf(n, header) ==
    IF header # "" THEN header
    ELSE JoinWith(SlugParts(n, _getReflectionWithDocument(n)), "-")

\* the part of a link after its "#", "" when it has none
RECURSIVE AnchorFrom(_, _)
AnchorFrom(link, i) ==
    IF i > Len(link) THEN ""
    ELSE IF Char(link, i) = "#" THEN SubSeq(link, i + 1, Len(link))
    ELSE AnchorFrom(link, i + 1)

AnchorOf(link) == AnchorFrom(link, 1)

\* whether createSlug(n, header) is asked for the first time: the slugger hands
\* out an identifier, or a page owner is asked for its own slug
FirstTime(n, header) ==
    Issues(n, header) \/ (header = "" /\ ~Broken(n) /\ slugsReturned[n] = {})

\* the history of a createSlug(n, header) made now, by a caller or by createLink
SlugHistory(n, header, r) ==
    LET d == _getReflectionWithDocument(n)
        issues == r.err = "" /\ Issues(n, header)
        first == r.err = "" /\ FirstTime(n, header)
    IN  /\ first => issued < MaxSlugs
        /\ issued' = IF first THEN issued + 1 ELSE issued
        /\ pageLog' = IF issues
                      THEN [pageLog EXCEPT ![d] = Append(@, LabelOf(n, header))]
                      ELSE pageLog
        /\ handed' = IF r.err = "" /\ (header # "" \/ d # n)
                     THEN [handed EXCEPT ![d] = @ \cup {r.val}]
                     ELSE handed
        /\ slugsReturned' = IF header = "" /\ r.err = ""
                            THEN [slugsReturned EXCEPT ![n] = @ \cup {r.val}]
                            ELSE slugsReturned

(***************************************************************************)
(* Actions: one per public operation of the router, and the caller taking  *)
(* the result.  Calls are made one after the other.                        *)
(***************************************************************************)
\* what the caller holds after the call op(from, to, arg) came back with r
Returned(op, from, to, arg, r, again) ==
    last' = [op |-> op, from |-> from, to |-> to, arg |-> arg,
             err |-> r.err, val |-> r.val, again |-> again]

\* the router after a call that came back with r
Routed(r) == _sluggers' = r.sluggers /\ _slugs' = r.slugs

\* createSlug(n, header) came back with r
SlugCalled(n, header, r) ==
    /\ Routed(r)
    /\ Returned("createSlug", NoNode, n, header, r, header = "" /\ slugsReturned[n] # {})
    /\ SlugHistory(n, header, r)

\* createLink(from, to) came back with r
LinkCalled(from, to, r) ==
    /\ Routed(r)
    /\ Returned("createLink", from, to, "", r, slugsReturned[to] # {})
    /\ SlugHistory(to, "", [r EXCEPT !.val = AnchorOf(r.val)])

CreateSlug(n, header) ==
    /\ last = NoCall
    /\ SlugCalled(n, header, createSlug(n, header))
    /\ UNCHANGED tree

CreateLink(from, to) ==
    /\ last = NoCall
    /\ LinkCalled(from, to, createLink(from, to))
    /\ UNCHANGED tree

GetDocumentName(n) ==
    /\ last = NoCall
    /\ Returned("getDocumentName", NoNode, n, "", getDocumentName(n), FALSE)
    /\ UNCHANGED <<tree, _sluggers, _slugs, history>>

CreateAssetLink(from, asset) ==
    /\ last = NoCall
    /\ Returned("createAssetLink", from, NoNode, asset, createAssetLink(from, asset), FALSE)
    /\ UNCHANGED <<tree, _sluggers, _slugs, history>>

CreateMediaLink(from, media) ==
    /\ last = NoCall
    /\ Returned("createMediaLink", from, NoNode, media, createMediaLink(from, media), FALSE)
    /\ UNCHANGED <<tree, _sluggers, _slugs, history>>

\* the caller takes the result
Return ==
    /\ last # NoCall
    /\ last' = NoCall
    /\ UNCHANGED <<tree, _sluggers, _slugs, history>>

(***************************************************************************)
(* Trees.  A tree as the converter builds it: reflection 1 is the project, *)
(* every other reflection hangs under an earlier one of a kind that can    *)
(* hold it, and siblings of one kind have different names (declarations of *)
(* one kind and name merge into one reflection).                           *)
(***************************************************************************)
CanHold(pk, ck) ==
    CASE pk = "Project" -> ck \in { "Module", "Namespace", "Class", "Interface", "Method" }
      [] pk \in { "Module", "Namespace" } -> ck \in { "Namespace", "Class", "Interface", "Method" }
      [] pk \in { "Class", "Interface" } -> ck = "Method"
      [] pk = "Method" -> ck = "CallSignature"
      [] OTHER -> FALSE

SiblingsDiffer(k, nm, p) ==
    \A a, b \in DOMAIN p :
        (a # b /\ p[a] = p[b] /\ k[a] = k[b] /\ ~(k[a] = "CallSignature")) => nm[a] # nm[b]

\* parent links that cannot loop; a project-rooted tree has exactly one root
ParentsOver(roots) ==
    { p \in [Nodes -> 0..(MaxNodes - 1)] :
        \A n \in Nodes : p[n] < n /\ (p[n] = NoNode => n \in roots) }

\* the tree is drawn link by link, so that only well-formed ones are enumerated
InitTree(kinds, names) ==
    /\ parent \in ParentsOver({1})
    /\ kind \in { k \in [Nodes -> kinds \cup {"Project"}] :
                    /\ k[1] = "Project"
                    /\ \A n \in Nodes \ {1} :
                          k[n] \in kinds /\ CanHold(k[parent[n]], k[n]) }
    /\ name \in { nm \in [Nodes -> names \cup {"MyLib"}] :
                    /\ nm[1] = "MyLib"
                    /\ \A n \in Nodes \ {1} : nm[n] \in names
                    /\ SiblingsDiffer(kind, nm, parent) }

InitForestTree(kinds, names) ==
    /\ parent \in ParentsOver(Nodes)
    /\ kind \in [Nodes -> kinds]
    /\ name \in [Nodes -> names]

InitRouter ==
    /\ router \in Routers
    /\ _sluggers = [n \in {} |-> EmptySlugger]
    /\ _slugs = [n \in {} |-> [m \in {} |-> ""]]
    /\ last = NoCall
    /\ issued = 0
    /\ slugsReturned = [n \in Nodes |-> {}]
    /\ handed = [n \in Nodes |-> {}]
    /\ pageLog = [n \in Nodes |-> <<>>]

\* anchors: names that collide by case and with a page id, on one page and on two
SlugKinds == { "Class", "Method", "CallSignature" }
SlugNames == { "main", "Main" }

Init == InitTree(SlugKinds, SlugNames) /\ InitRouter

Next ==
    \/ \E n \in Nodes, header \in Headers \cup {""} : CreateSlug(n, header)
    \/ \E from \in LinkSources, to \in Nodes : CreateLink(from, to)
    \/ Return

Spec == Init /\ [][Next]_vars

\* documents: names that need sanitising, kinds that nest
DocKinds == { "Module", "Namespace", "Class", "Method" }
DocNames == { "Foo", "$a", "_a", "-a" }

InitDocs == InitTree(DocKinds, DocNames) /\ InitRouter

NextDocs ==
    \/ \E n \in Nodes : GetDocumentName(n)
    \/ \E n \in Nodes, asset \in Assets : CreateAssetLink(n, asset)
    \/ \E n \in Nodes, media \in Medias : CreateMediaLink(n, media)
    \/ Return

SpecDocs == InitDocs /\ [][NextDocs]_vars

\* malformed input: forests
ForestKinds == { "Project", "Class", "Method" }
ForestNames == { "a" }

InitForest == InitForestTree(ForestKinds, ForestNames) /\ InitRouter

NextForest ==
    \/ \E n \in Nodes : CreateSlug(n, "")
    \/ \E from \in LinkSources, to \in Nodes : CreateLink(from, to)
    \/ \E n \in Nodes : GetDocumentName(n)
    \/ \E n \in Nodes, asset \in Assets : CreateAssetLink(n, asset)
    \/ \E n \in Nodes, media \in Medias : CreateMediaLink(n, media)
    \/ Return

SpecForest == InitForest /\ [][NextForest]_vars

(***************************************************************************)
(* Properties.                                                             *)
(***************************************************************************)
Owner(n) == _getReflectionWithDocument(n)
Called(op) == last.op = op /\ last.err = ""
Reserved == { "main", "search", "theme" }

\* C1: every header-less createSlug(n) returns the string the first one returned:
\* the set of strings returned for n never holds two, whatever was called between.
C1_SlugIdempotent ==
    /\ \A n \in Nodes : Cardinality(slugsReturned[n]) <= 1
    /\ (Called("createSlug") /\ last.arg = "") => slugsReturned[last.to] = {last.val}

\* a repeated query for a reflection inside a page, answered after the page's
\* slugger handed out something else
C1_Witness ==
    /\ Called("createSlug") /\ last.arg = "" /\ last.again
    /\ Owner(last.to) # last.to
    /\ Cardinality(handed[Owner(last.to)]) >= 2

\* C2: two reflections inside one page never share a slug up to case, and no
\* slug is one of the ids of the page chrome.
C2_SlugsUnique ==
    \A a, b \in Nodes :
        (a # b /\ Owner(a) = Owner(b) /\ Owner(a) \notin {a, b, NoNode}) =>
            \A sa \in slugsReturned[a], sb \in slugsReturned[b] :
                /\ toLowerCase(sa) # toLowerCase(sb)
                /\ sa \notin Reserved /\ sb \notin Reserved

\* two reflections of one page whose names differ only in case and fold to a
\* reserved id, both slugged
C2_Witness ==
    \E a, b \in Nodes :
        /\ a # b /\ Owner(a) = Owner(b) /\ Owner(a) \notin {a, b, NoNode}
        /\ name[a] # name[b] /\ toLowerCase(name[a]) = toLowerCase(name[b])
        /\ toLowerCase(name[a]) \in Reserved
        /\ slugsReturned[a] # {} /\ slugsReturned[b] # {}

\* what createSlug calls on page d returned so far, the "" of the page's own
\* header-less query included
EarlierReturns(d) == handed[d] \cup slugsReturned[d]

\* C5 as claimed: a header call returns a string no earlier createSlug call on
\* the page returned, and leaves the slug memo alone.
C5_HeaderFreshAmongAll ==
    [][(last'.op = "createSlug" /\ last'.arg # "" /\ last'.err = "") =>
          /\ last'.val \notin EarlierReturns(Owner(last'.to))
          /\ _slugs' = _slugs]_vars

\* C5 amended: a header call returns a string the page's slugger has not handed
\* out before (to a header call or to a reflection inside the page), and leaves
\* the slug memo alone; the "" of the page owner's own query is not excluded.
C5_HeaderFresh ==
    [][(last'.op = "createSlug" /\ last'.arg # "" /\ last'.err = "") =>
          /\ last'.val \notin handed[Owner(last'.to)]
          /\ _slugs' = _slugs]_vars

\* the same header text asked twice on one page: the second answer differs
C5_Witness ==
    /\ Called("createSlug") /\ last.arg # ""
    /\ pageLog[Owner(last.to)] = <<last.arg, last.arg>>
    /\ Cardinality(handed[Owner(last.to)]) = 2

\* what follows the path in a link to `to`, given the slugs returned for it
C7_Suffix(to) ==
    IF Owner(to) = to THEN ""
    ELSE LET s == CHOOSE x \in slugsReturned[to] : TRUE
         IN  IF s = "" THEN "" ELSE "#" \o s

\* C7: a link is the relative path between the two documents, then "#" and the
\* target's slug unless that is empty (as it is for a page owner); the anchor is
\* the string header-less createSlug(to) returns, before or after.
C7_LinkForm ==
    Called("createLink") =>
        /\ Cardinality(slugsReturned[last.to]) = 1
        /\ last.val = relative(dirname(getDocumentName(last.from).val),
                               getDocumentName(last.to).val) \o C7_Suffix(last.to)

\* a link from another page to a reflection whose slug a caller had asked for
\* before, the page's slugger having handed out another identifier in between
C7_Witness ==
    /\ Called("createLink") /\ last.again
    /\ Owner(last.to) # last.to /\ Owner(last.from) # Owner(last.to)
    /\ Cardinality(handed[Owner(last.to)]) >= 2

\* the slugger a page has after being given these labels, and nothing else
RECURSIVE Replay(_)
Replay(log) ==
    IF Len(log) = 0 THEN NewSlugger
    ELSE SluggerSlug(Replay(SubSeq(log, 1, Len(log) - 1)), log[Len(log)]).seen

\* C9: a page's slugger and memo are what the calls for that page alone made
\* them, under every interleaving with calls for other pages.
C9_PageIsolation ==
    \A d \in Nodes :
        /\ IF d \in DOMAIN _sluggers THEN _sluggers[d] = Replay(pageLog[d])
           ELSE pageLog[d] = <<>>
        /\ d \in DOMAIN _slugs =>
              \A n \in DOMAIN _slugs[d] :
                  Owner(n) = d /\ slugsReturned[n] = {_slugs[d][n]}

\* two reflections of one name on two pages, both given the same slug
C9_Witness ==
    \E a, b \in Nodes :
        /\ a # b /\ Owner(a) # Owner(b) /\ Owner(a) # a /\ Owner(b) # b
        /\ name[a] = name[b]
        /\ slugsReturned[a] # {} /\ slugsReturned[a] = slugsReturned[b]

\* single Project root, every reflection under it, the policy downward-consistent
WellFormed ==
    /\ isProject(1) /\ hasOwnDocument(1)
    /\ \A n \in Nodes \ {1} : parent[n] # NoNode /\ ~isProject(n)
    /\ \A n \in Nodes \ {1} : hasOwnDocument(n) => hasOwnDocument(parent[n])

\* C3 as claimed: in a well-formed tree two distinct document owners never get
\* the same document name.
C3_DocumentNamesUnique ==
    (WellFormed /\ Called("getDocumentName") /\ hasOwnDocument(last.to)) =>
        \A b \in Nodes \ {last.to} :
            hasOwnDocument(b) => getDocumentName(b).val # last.val

\* C4 as claimed: a media link is the relative path from the directory of the
\* owner's document to <media directory>/<name>, an asset link the one to
\* <asset directory>/<name>.
C4_MediaAndAssetLinks ==
    /\ Called("createMediaLink") =>
          last.val = relative(dirname(getDocumentName(Owner(last.from)).val),
                              getMediaDirectory \o "/" \o last.arg)
    /\ Called("createAssetLink") =>
          last.val = relative(dirname(getDocumentName(Owner(last.from)).val),
                              getAssetDirectory \o "/" \o last.arg)

\* sanitized names of the proper ancestors of n below the root, root first
RECURSIVE AncestorNames(_)
AncestorNames(n) ==
    IF parent[n] = NoNode \/ parent[parent[n]] = NoNode THEN <<>>
    ELSE Append(AncestorNames(parent[n]), _getSafeFilename(name[parent[n]]))

\* the document name by its description
C6_Expected(n) ==
    LET o == Owner(n)
    IN  IF isProject(o) THEN "index.html"
        ELSE IF getChildrenNotInPage(o) # {}
        THEN JoinWith(AncestorNames(o) \o <<_getSafeFilename(name[o]), "index.html">>, "/")
        ELSE JoinWith(AncestorNames(o) \o
                 <<toKindString(kind[o]) \o "." \o _getSafeFilename(name[o]) \o ".html">>, "/")

\* C6: the document of n is that of its owner o: the directory index of o when
\* o is the project or has children with documents of their own, else the leaf
\* <ancestors>/<kind>.<name>.html.
C6_DocumentNameForm ==
    Called("getDocumentName") =>
        /\ last.val = C6_Expected(last.to)
        /\ last.val = getDocumentName(Owner(last.to)).val

\* a reflection without a document, inside a leaf document below a directory
C6_Witness ==
    /\ Called("getDocumentName")
    /\ Owner(last.to) # last.to
    /\ getChildrenNotInPage(Owner(last.to)) = {}
    /\ Len(AncestorNames(Owner(last.to))) = 1
    /\ \E o \in Nodes : o # 1 /\ getChildrenNotInPage(o) # {}

\* the characters of [A-Za-z0-9._-]
Portable == CharsOf("ABCDEFGHIJKLMNOPQRSTUVWXYZabcdefghijklmnopqrstuvwxyz0123456789._-")

\* seg is nm with every other character, and a leading "-", replaced by "_"
C10_Sanitized(nm, seg) ==
    /\ Len(seg) = Len(nm)
    /\ \A i \in 1..Len(nm) :
          Char(seg, i) = IF Char(nm, i) \in Portable /\ ~(i = 1 /\ Char(nm, i) = "-")
                         THEN Char(nm, i) ELSE "_"

RECURSIVE C8_HasOwner(_)
C8_HasOwner(n) ==
    hasOwnDocument(n) \/ (parent[n] # NoNode /\ C8_HasOwner(parent[n]))

C8_Broken(n) == ~C8_HasOwner(n)
C8_Rootless(n) == C8_HasOwner(n) /\ ~isProject(Top(n))

C8_Common ==
    /\ (last.op \in {"createSlug", "getDocumentName"} /\ C8_Broken(last.to))
          => last.err = BrokenAncestry
    /\ (last.op \in {"createAssetLink", "createMediaLink", "createLink"} /\ C8_Broken(last.from))
          => last.err = BrokenAncestry
    /\ (last.op = "getDocumentName" /\ C8_Rootless(last.to)) => last.err = NonProjectRoot
    /\ (last.op # "none" /\ WellFormed) => last.err = ""

\* C8 as claimed: with a reflection of broken ancestry as either argument,
\* createLink fails with the broken-ancestry error.
C8_MalformedFatalAsClaimed ==
    /\ C8_Common
    /\ (last.op = "createLink" /\ C8_Broken(last.to)) => last.err = BrokenAncestry

\* C8 amended: createLink(from, n) reports what getDocumentName(from) throws
\* when that fails, since it is evaluated first: the broken-ancestry error if
\* from is broken or resolves under a project, the non-project-root error if
\* from has an owner but no project above it.
C8_MalformedFatal ==
    /\ C8_Common
    /\ (last.op = "createLink" /\ C8_Broken(last.to)) =>
          last.err = IF C8_Rootless(last.from) THEN NonProjectRoot ELSE BrokenAncestry

\* a link from a page outside any project to a reflection of broken ancestry
C8_Witness ==
    /\ last.op = "createLink" /\ C8_Broken(last.to) /\ C8_Rootless(last.from)
    /\ last.err = NonProjectRoot

=============================================================================
